---- MODULE Spec2Model ----
(***************************************************************************)
(* BeatMaker (src/script.js): a 16-step, four-track drum sequencer.        *)
(* The model covers the sequencer engine: the pattern grid, the mute set,  *)
(* the sound parameters, the transport (isPlaying, currentStep, tempo,     *)
(* intervalId) and the host's repeating timers created by setInterval.     *)
(* Handlers run to completion (single-threaded event loop), so each        *)
(* handler is one action.  A handler that throws keeps the assignments it  *)
(* made before the throw.                                                  *)
(***************************************************************************)
EXTENDS Integers, Sequences, FiniteSets, TLC

VARIABLES
    pattern,        \* this.pattern: track -> row (a JS array)
    currentStep,    \* this.currentStep
    isPlaying,      \* this.isPlaying
    tempo,          \* this.tempo
    intervalId,     \* this.intervalId (null or a timer handle)
    mutedTracks,    \* this.mutedTracks
    audioContext,   \* this.audioContext (null when Web Audio is missing)
    soundConfig,    \* this.soundConfig
    timers,         \* host state: live repeating timers, handle -> period
    last,           \* observation of the handler that ran last
    resume,         \* history: a pause()/stop() directly followed by play()
    due,            \* host state: handle -> time until the timer fires next
    sinceTick,      \* history: time since the last playStep, capped
    sounding,       \* audio graph: the voices started and not yet ended
    twin            \* a second BeatMaker, built with the other audio state

vars == <<pattern, currentStep, isPlaying, tempo, intervalId, mutedTracks,
          audioContext, soundConfig, timers, last, resume, due, sinceTick,
          sounding, twin>>

----------------------------------------------------------------------------
(* Bounds of the exploration *)

\* most repeating timers alive at once (play() can leak timers)
MaxLiveTimers == 2

\* highest out-of-range step index offered to toggleStep (steps is 16)
MaxStepArg == 16

\* most voices sounding at once
MaxVoices == 2

\* cap of the time measured since the last tick, in units of 62.5 ms; the
\* cap also stands for "no tick yet"
MaxSince == 3

----------------------------------------------------------------------------
(* Constants of the program *)

tracks == <<"kick", "snare", "hihat", "crash">>

steps == 16

InitialTempo == 120

\* null; timer handles are positive integers, and `if (this.intervalId)'
\* treats null like 0
null == 0

TrackSet == {tracks[i] : i \in 1..Len(tracks)}

----------------------------------------------------------------------------
(* JS arrays: a length and the own properties that are set.  A row starts  *)
(* as new Array(16).fill(false).                                           *)

NewRow == [length |-> steps, cells |-> [i \in 0..(steps - 1) |-> FALSE]]

\* row[k] read as a condition: a missing property is undefined, i.e. falsy
RowGet(row, k) == IF k \in DOMAIN row.cells THEN row.cells[k] ELSE FALSE

\* row[k] = v written as a loop over the whole row
RowSet_All(row, k, v) ==
    [length |-> IF k >= row.length THEN k + 1 ELSE row.length,
     cells  |-> [j \in (DOMAIN row.cells) \cup {k} |-> v]]

\* row[k] = v: an index at or past the end grows the array, a negative key
\* is an ordinary property and leaves length alone
RowSet(row, k, v) ==
    [length |-> IF k >= row.length THEN k + 1 ELSE row.length,
     cells  |-> [j \in (DOMAIN row.cells) \cup {k} |->
                    IF j = k THEN v ELSE row.cells[j]]]

\* row[k] = !row[k]
Flip(row, k) == RowSet(row, k, ~RowGet(row, k))

\* row.fill(false): every index below length, holes included
RowFill(row) ==
    [length |-> row.length,
     cells  |-> [j \in (DOMAIN row.cells) \cup (0..(row.length - 1)) |->
                    IF j \in 0..(row.length - 1) THEN FALSE ELSE row.cells[j]]]

----------------------------------------------------------------------------
(* The document: generateSteps creates one button per track and step       *)

HasStepBtn(track, step) == track \in TrackSet /\ step \in 0..(steps - 1)

HasMuteBtn(track) == track \in TrackSet

----------------------------------------------------------------------------
(* parseInt on a string given as a sequence of characters *)

NaN == "NaN"

DigitVal ==
    [c \in {"0", "1", "2", "3", "4", "5", "6", "7", "8", "9"} |->
        CASE c = "0" -> 0 [] c = "1" -> 1 [] c = "2" -> 2 [] c = "3" -> 3
          [] c = "4" -> 4 [] c = "5" -> 5 [] c = "6" -> 6 [] c = "7" -> 7
          [] c = "8" -> 8 [] c = "9" -> 9]

IsDigit(s, i) == i <= Len(s) /\ s[i] \in DOMAIN DigitVal

RECURSIVE SkipSpaces(_, _)
SkipSpaces(s, i) ==
    IF i <= Len(s) /\ s[i] = " " THEN SkipSpaces(s, i + 1) ELSE i

RECURSIVE ParseDigits(_, _, _)
ParseDigits(s, i, acc) ==
    IF IsDigit(s, i) THEN ParseDigits(s, i + 1, acc * 10 + DigitVal[s[i]])
    ELSE acc

ParseInt(s) ==
    LET b      == SkipSpaces(s, 1)
        signed == b <= Len(s) /\ s[b] \in {"-", "+"}
        d      == IF signed THEN b + 1 ELSE b
    IN  IF ~IsDigit(s, d) THEN NaN
        ELSE IF signed /\ s[b] = "-" THEN 0 - ParseDigits(s, d, 0)
        ELSE ParseDigits(s, d, 0)

----------------------------------------------------------------------------
(* Timers of the host *)

\* (60000 / tempo) / 4 milliseconds, kept as an exact fraction; a zero
\* denominator is JavaScript's Infinity
Interval(t) == [num |-> 60000, den |-> t * 4]

\* setInterval returns a handle distinct from every live one
FreshId(tm) == CHOOSE i \in 1..(Cardinality(DOMAIN tm) + 1) : i \notin DOMAIN tm

SetInterval(tm, id, period) ==
    [j \in (DOMAIN tm) \cup {id} |-> IF j = id THEN period ELSE tm[j]]

\* clearInterval(id): cancels the timer when id names a live one
ClearInterval(tm, id) == [j \in (DOMAIN tm) \ {id} |-> tm[j]]

\* the delay the host gives a repeating timer, in units of 62.5 ms (the
\* period of tempo 240): Infinity and negative delays are taken as 0
HostDelay(period) ==
    IF period.den <= 0 THEN 0
    ELSE (period.num * 2 + period.den * 125 - 1) \div (period.den * 125)

----------------------------------------------------------------------------
(* playSound: the voice it creates, if any *)

FilterOf(track) ==
    IF track = "kick" THEN [type |-> "lowpass", frequency |-> 100]
    ELSE IF track = "hihat" THEN [type |-> "highpass", frequency |-> 5000]
    ELSE [type |-> "none", frequency |-> 0]

PlaySound(track) ==
    IF audioContext = "null" THEN <<>>
    ELSE IF track \notin DOMAIN soundConfig THEN <<>>
    ELSE <<[track     |-> track,
            frequency |-> soundConfig[track].frequency,
            type      |-> soundConfig[track].type,
            decay     |-> soundConfig[track].decay,
            filter    |-> FilterOf(track)]>>

RECURSIVE PlaySounds(_)
PlaySounds(ts) ==
    IF ts = <<>> THEN <<>> ELSE PlaySound(Head(ts)) \o PlaySounds(Tail(ts))

\* what a handler did: its arguments, whether it threw, which tracks it
\* passed to playSound (in order), the voices created, and for playStep
\* the step it processed (0 for the other handlers)
Done(op, args, outcome, called) ==
    [op |-> op, args |-> args, outcome |-> outcome, called |-> called,
     voices |-> PlaySounds(called),
     step |-> IF op = "tick" THEN currentStep ELSE 0]

----------------------------------------------------------------------------
(* History of pause()/stop() directly followed by play() and a tick *)

NoResume == [kind |-> "none", step |-> 0]

Observe(op) ==
    CASE op = "pause" \/ (op = "togglePlay" /\ isPlaying) ->
            [kind |-> "paused", step |-> currentStep]
      [] op = "stop"  -> [kind |-> "stopped", step |-> currentStep]
      [] op = "play" \/ (op = "togglePlay" /\ ~isPlaying) ->
            IF resume.kind = "paused"
            THEN [kind |-> "pausedPlayed", step |-> resume.step]
            ELSE IF resume.kind = "stopped"
            THEN [kind |-> "stoppedPlayed", step |-> resume.step]
            ELSE NoResume
      [] op = "tick"  ->
            IF resume.kind = "pausedPlayed"
            THEN [kind |-> "pausedPlayedTicked", step |-> resume.step]
            ELSE IF resume.kind = "stoppedPlayed"
            THEN [kind |-> "stoppedPlayedTicked", step |-> resume.step]
            ELSE NoResume
      [] OTHER -> NoResume

----------------------------------------------------------------------------
(* Construction *)

\* decay is in hundredths of a second (0.5 s is 50)
DefaultSound ==
    [t \in TrackSet |->
        CASE t = "kick"  -> [frequency |-> 60, type |-> "sine", decay |-> 50]
          [] t = "snare" -> [frequency |-> 200, type |-> "square", decay |-> 30]
          [] t = "hihat" -> [frequency |-> 8000, type |-> "square", decay |-> 10]
          [] t = "crash" -> [frequency |-> 300, type |-> "sawtooth", decay |-> 100]]

\* a BeatMaker as one value: its fields after construction, and what its
\* last handler did
NewTwin(ctx) ==
    [pattern      |-> [t \in TrackSet |-> NewRow],
     currentStep  |-> 0,
     isPlaying    |-> FALSE,
     tempo        |-> InitialTempo,
     intervalId   |-> null,
     mutedTracks  |-> {},
     audioContext |-> ctx,
     soundConfig  |-> DefaultSound,
     timers       |-> <<>>,
     outcome      |-> "ok",
     called       |-> <<>>,
     voices       |-> <<>>]

Init ==
    /\ pattern = [t \in TrackSet |-> NewRow]
    /\ currentStep = 0
    /\ isPlaying = FALSE
    /\ tempo = InitialTempo
    /\ intervalId = null
    /\ mutedTracks = {}
    /\ audioContext \in {"null", "AudioContext"}
    /\ soundConfig =
          [t \in TrackSet |->
             DefaultSound[t]]
    /\ timers = <<>>
    /\ last = [op |-> "new", args |-> <<>>, outcome |-> "ok", called |-> <<>>,
               voices |-> <<>>, step |-> 0]
    /\ resume = NoResume
    /\ due = <<>>
    /\ sinceTick = MaxSince
    /\ sounding = <<>>
    /\ twin = NewTwin(IF audioContext = "null" THEN "AudioContext"
                      ELSE "null")

----------------------------------------------------------------------------
(* Arguments offered to the handlers *)

\* steps passed to toggleStep: the first one, one past the row, and -1
StepArgs == {-1, 0, MaxStepArg}

\* (track, step) pairs passed to toggleStep: a real track and an unknown
\* one with every step above, and one cell of a second real track
ToggleArgs == ({"snare", "tom"} \X StepArgs) \cup {<<"kick", 0>>}

MuteArgs == {"snare"}

\* slider strings passed to updateTempo
TempoArgs == {<<"2", "4", "0">>, <<"0">>, <<"-", "6", "0">>}

SoundArgs == {<<"kick", "kick2">>}

\* (track, soundId) pairs passed to changeSound: a track with its own
\* variant, a track with another track's variant, an unknown track, and an
\* unknown soundId
VariantArgs ==
    {<<"kick", "kick2">>, <<"snare", "snare2">>, <<"snare", "kick2">>,
     <<"tom", "kick2">>, <<"kick", "kick9">>}

\* cells of step 0 passed to toggleStep where the order of firing matters
ChordArgs == {<<"kick", 0>>, <<"snare", 0>>, <<"crash", 0>>}

----------------------------------------------------------------------------
(* Handlers *)

\* the audition of toggleStep guarded by the mute set, as playStep is
Audition_UnlessMuted(track, row, step) ==
    IF RowGet(row, step) /\ track \notin mutedTracks THEN <<track>> ELSE <<>>

\* the audition of toggleStep: playSound when the cell became active
Audition(track, row, step) ==
    IF RowGet(row, step) THEN <<track>> ELSE <<>>

\* toggleStep(track, step)
ToggleStep(track, step) ==
    /\ IF track \notin DOMAIN pattern
       THEN \* this.pattern[track] is undefined: reading [step] throws
            /\ UNCHANGED pattern
            /\ last' = Done("toggleStep", <<track, step>>, "TypeError", <<>>)
       ELSE LET row == Flip(pattern[track], step)
            IN  /\ pattern' = [pattern EXCEPT ![track] = row]
                /\ last' =
                      IF ~HasStepBtn(track, step)
                      THEN \* querySelector gives null: .classList throws
                           Done("toggleStep", <<track, step>>, "TypeError",
                                <<>>)
                      ELSE Done("toggleStep", <<track, step>>, "ok",
                                Audition(track, row, step))
    /\ UNCHANGED <<currentStep, isPlaying, tempo, intervalId, mutedTracks,
                   audioContext, soundConfig, timers>>

\* the assignments of play()
PlayBody ==
    /\ isPlaying' = TRUE
    /\ intervalId' = FreshId(timers)
    /\ timers' = SetInterval(timers, FreshId(timers), Interval(tempo))

\* pause() forgetting the handle without cancelling the timer
PauseBody_NoClear ==
    /\ isPlaying' = FALSE
    /\ intervalId' = null
    /\ UNCHANGED timers

\* the assignments of pause()
PauseBody ==
    /\ isPlaying' = FALSE
    /\ IF intervalId # null
       THEN /\ timers' = ClearInterval(timers, intervalId)
            /\ intervalId' = null
       ELSE UNCHANGED <<timers, intervalId>>

\* play()
Play ==
    /\ Cardinality(DOMAIN timers) < MaxLiveTimers
    /\ PlayBody
    /\ last' = Done("play", <<>>, "ok", <<>>)
    /\ UNCHANGED <<pattern, currentStep, tempo, mutedTracks, audioContext,
                   soundConfig>>

\* pause() written as stop(): it also rewinds
Pause_Rewinds ==
    /\ PauseBody
    /\ currentStep' = 0
    /\ last' = Done("pause", <<>>, "ok", <<>>)
    /\ UNCHANGED <<pattern, tempo, mutedTracks, audioContext, soundConfig>>

\* pause()
Pause ==
    /\ PauseBody
    /\ last' = Done("pause", <<>>, "ok", <<>>)
    /\ UNCHANGED <<pattern, currentStep, tempo, mutedTracks, audioContext,
                   soundConfig>>

\* togglePlay()
TogglePlay ==
    /\ IF isPlaying
       THEN PauseBody
       ELSE /\ Cardinality(DOMAIN timers) < MaxLiveTimers
            /\ PlayBody
    /\ last' = Done("togglePlay", <<>>, "ok", <<>>)
    /\ UNCHANGED <<pattern, currentStep, tempo, mutedTracks, audioContext,
                   soundConfig>>

\* stop()
Stop ==
    /\ PauseBody
    /\ currentStep' = 0
    /\ last' = Done("stop", <<>>, "ok", <<>>)
    /\ UNCHANGED <<pattern, tempo, mutedTracks, audioContext, soundConfig>>

\* playStep without the test of this.mutedTracks
Firing_IgnoringMute ==
    SelectSeq(tracks, LAMBDA t : RowGet(pattern[t], currentStep))

\* playStep walking this.tracks from the end
Firing_Reversed ==
    LET f == SelectSeq(tracks, LAMBDA t : RowGet(pattern[t], currentStep)
                                          /\ t \notin mutedTracks)
    IN  [i \in 1..Len(f) |-> f[Len(f) + 1 - i]]

\* the tracks playStep passes to playSound, in the order of this.tracks
Firing ==
    SelectSeq(tracks, LAMBDA t : RowGet(pattern[t], currentStep)
                                 /\ t \notin mutedTracks)

\* playStep() wrapping one step late
Tick_LateWrap(id) ==
    /\ id \in DOMAIN timers
    /\ currentStep' = (currentStep + 1) % (steps + 1)
    /\ last' = Done("tick", <<id>>, "ok", Firing)
    /\ UNCHANGED <<pattern, isPlaying, tempo, intervalId, mutedTracks,
                   audioContext, soundConfig, timers>>

\* playStep() whose playSound fails on a null audio context: the handler
\* stops at the first track that fires, before currentStep advances
Tick_NeedsAudio(id) ==
    /\ id \in DOMAIN timers
    /\ IF audioContext = "null" /\ Firing # <<>>
       THEN /\ UNCHANGED currentStep
            /\ last' = Done("tick", <<id>>, "TypeError", <<>>)
       ELSE /\ currentStep' = (currentStep + 1) % steps
            /\ last' = Done("tick", <<id>>, "ok", Firing)
    /\ UNCHANGED <<pattern, isPlaying, tempo, intervalId, mutedTracks,
                   audioContext, soundConfig, timers>>

\* playStep(), run by the live timer id
Tick(id) ==
    /\ id \in DOMAIN timers
    /\ currentStep' = (currentStep + 1) % steps
    /\ last' = Done("tick", <<id>>, "ok", Firing)
    /\ UNCHANGED <<pattern, isPlaying, tempo, intervalId, mutedTracks,
                   audioContext, soundConfig, timers>>

\* toggleMute(track)
ToggleMute(track) ==
    /\ mutedTracks' = IF track \in mutedTracks THEN mutedTracks \ {track}
                      ELSE mutedTracks \cup {track}
    /\ last' = Done("toggleMute", <<track>>,
                    IF HasMuteBtn(track) THEN "ok" ELSE "TypeError", <<>>)
    /\ UNCHANGED <<pattern, currentStep, isPlaying, tempo, intervalId,
                   audioContext, soundConfig, timers>>

variations ==
    [id \in {"kick1", "kick2", "kick3", "snare1", "snare2", "snare3",
             "hihat1", "hihat2", "hihat3", "crash1", "crash2"} |->
        CASE id = "kick1"  -> [frequency |-> 60, type |-> "sine"]
          [] id = "kick2"  -> [frequency |-> 40, type |-> "triangle"]
          [] id = "kick3"  -> [frequency |-> 80, type |-> "square"]
          [] id = "snare1" -> [frequency |-> 200, type |-> "square"]
          [] id = "snare2" -> [frequency |-> 300, type |-> "sawtooth"]
          [] id = "snare3" -> [frequency |-> 150, type |-> "triangle"]
          [] id = "hihat1" -> [frequency |-> 8000, type |-> "square"]
          [] id = "hihat2" -> [frequency |-> 10000, type |-> "sawtooth"]
          [] id = "hihat3" -> [frequency |-> 6000, type |-> "triangle"]
          [] id = "crash1" -> [frequency |-> 300, type |-> "sawtooth"]
          [] id = "crash2" -> [frequency |-> 400, type |-> "square"]]

\* { ...b, ...a }: the spread written in the wrong order
Merge_KeepOld(a, b) ==
    [k \in (DOMAIN a) \cup (DOMAIN b) |-> IF k \in DOMAIN a THEN a[k] ELSE b[k]]

\* { ...a, ...b } for records given as functions; a may be undefined
Merge(a, b) ==
    [k \in (DOMAIN a) \cup (DOMAIN b) |-> IF k \in DOMAIN b THEN b[k] ELSE a[k]]

\* changeSound(track, soundId)
ChangeSound(track, soundId) ==
    /\ IF soundId \in DOMAIN variations
       THEN soundConfig' =
              [t \in (DOMAIN soundConfig) \cup {track} |->
                 IF t = track
                 THEN Merge(IF track \in DOMAIN soundConfig
                            THEN soundConfig[track] ELSE <<>>,
                            variations[soundId])
                 ELSE soundConfig[t]]
       ELSE UNCHANGED soundConfig
    /\ last' = Done("changeSound", <<track, soundId>>, "ok", <<>>)
    /\ UNCHANGED <<pattern, currentStep, isPlaying, tempo, intervalId,
                   mutedTracks, audioContext, timers>>

\* updateTempo(newTempo)
UpdateTempo(newTempo) ==
    /\ tempo' = ParseInt(newTempo)
    /\ IF isPlaying
       THEN LET cleared == ClearInterval(timers, intervalId)
            IN  /\ intervalId' = FreshId(cleared)
                /\ timers' = SetInterval(cleared, FreshId(cleared),
                                         Interval(tempo'))
       ELSE UNCHANGED <<timers, intervalId>>
    /\ last' = Done("updateTempo", <<newTempo>>, "ok", <<>>)
    /\ UNCHANGED <<pattern, currentStep, isPlaying, mutedTracks, audioContext,
                   soundConfig>>

\* clearAll()
ClearAll ==
    /\ pattern' = [t \in DOMAIN pattern |-> RowFill(pattern[t])]
    /\ PauseBody
    /\ currentStep' = 0
    /\ last' = Done("clearAll", <<>>, "ok", <<>>)
    /\ UNCHANGED <<tempo, mutedTracks, audioContext, soundConfig>>

----------------------------------------------------------------------------
(* Specifications *)

\* the transport: every transport command, over a pattern of one cell
Next ==
    /\ \/ ToggleStep("kick", 0)
       \/ Play
       \/ Pause
       \/ TogglePlay
       \/ Stop
       \/ \E id \in DOMAIN timers : Tick(id)
       \/ \E v \in TempoArgs : UpdateTempo(v)
       \/ ToggleMute("kick")
       \/ ClearAll
    /\ resume' = Observe(last'.op)
    /\ UNCHANGED <<due, sinceTick, sounding, twin>>

Spec == Init /\ [][Next]_vars

\* the grid: pattern, mute set and sound parameters under playback
NextGrid ==
    /\ \/ \E a \in ToggleArgs : ToggleStep(a[1], a[2])
       \/ \E t \in MuteArgs : ToggleMute(t)
       \/ \E a \in SoundArgs : ChangeSound(a[1], a[2])
       \/ TogglePlay
       \/ \E id \in DOMAIN timers : Tick(id)
       \/ ClearAll
    /\ UNCHANGED <<resume, due, sinceTick, sounding, twin>>

SpecGrid == Init /\ [][NextGrid]_vars

\* the sounds: variants, and several tracks firing on one step
NextSound ==
    /\ \/ \E a \in ChordArgs : ToggleStep(a[1], a[2])
       \/ \E t \in MuteArgs : ToggleMute(t)
       \/ \E a \in VariantArgs : ChangeSound(a[1], a[2])
       \/ TogglePlay
       \/ \E id \in DOMAIN timers : Tick(id)
    /\ UNCHANGED <<resume, due, sinceTick, sounding, twin>>

SpecSound == Init /\ [][NextSound]_vars

\* the commands the page wires to its controls and keys, and the ticks
NextUI ==
    /\ \/ TogglePlay
       \/ Stop
       \/ ClearAll
       \/ \E v \in TempoArgs : UpdateTempo(v)
       \/ ToggleStep("kick", 0)
       \/ ToggleMute("kick")
       \/ \E a \in SoundArgs : ChangeSound(a[1], a[2])
       \/ \E id \in DOMAIN timers : Tick(id)
    /\ UNCHANGED <<resume, due, sinceTick, sounding, twin>>

SpecUI == Init /\ [][NextUI]_vars

\* slider strings passed to updateTempo where time is measured
TimedTempoArgs == {<<"2", "4", "0">>, <<"0">>}

\* a handler that called setInterval: the timer intervalId now names
\* starts a full delay from now; the other live timers keep their phase
Rearm ==
    LET installs ==
           \/ last'.op = "play"
           \/ last'.op = "togglePlay" /\ ~isPlaying
           \/ last'.op = "updateTempo" /\ isPlaying
    IN  [j \in DOMAIN timers' |->
            IF installs /\ j = intervalId' THEN HostDelay(timers'[j])
            ELSE due[j]]

\* the timer id is due: the host runs playStep and re-arms the timer
TimedTick(id) ==
    /\ id \in DOMAIN timers
    /\ due[id] = 0
    /\ Tick(id)
    /\ due' = [due EXCEPT ![id] = HostDelay(timers[id])]
    /\ sinceTick' = 0
    /\ UNCHANGED <<resume, sounding, twin>>

\* 62.5 ms pass with no timer due
Advance ==
    /\ \A id \in DOMAIN timers : due[id] > 0
    /\ due' = [id \in DOMAIN due |-> due[id] - 1]
    /\ sinceTick' = IF sinceTick < MaxSince THEN sinceTick + 1 ELSE MaxSince
    /\ UNCHANGED <<pattern, currentStep, isPlaying, tempo, intervalId,
                   mutedTracks, audioContext, soundConfig, timers, last,
                   resume, sounding, twin>>

\* the transport under a clock: timers fire when they are due
NextTime ==
    \/ /\ \/ Play
          \/ Pause
          \/ TogglePlay
          \/ Stop
          \/ \E v \in TimedTempoArgs : UpdateTempo(v)
       /\ due' = Rearm
       /\ UNCHANGED <<resume, sinceTick, sounding, twin>>
    \/ \E id \in DOMAIN timers : TimedTick(id)
    \/ Advance

SpecTime == Init /\ [][NextTime]_vars

\* a handler that stops every voice when the transport halts
KeepSounding_CutOnHalt ==
    IF last'.op \in {"pause", "stop", "clearAll"} THEN <<>>
    ELSE sounding \o [i \in 1..Len(last'.voices) |->
                        [track |-> last'.voices[i].track,
                         decay |-> last'.voices[i].decay, age |-> 0]]

\* the voices after a handler: each voice it made was started now
\* (oscillator.start(now)) to end decay later (oscillator.stop(now +
\* decay)); no handler holds or stops a voice started before
KeepSounding ==
    sounding \o [i \in 1..Len(last'.voices) |->
                   [track |-> last'.voices[i].track,
                    decay |-> last'.voices[i].decay, age |-> 0]]

\* 0.1 s of the audio clock passes: a voice that reaches its end is gone
Elapse ==
    /\ sounding # <<>>
    /\ sounding' =
          SelectSeq([i \in 1..Len(sounding) |->
                       [sounding[i] EXCEPT !.age = @ + 10]],
                    LAMBDA v : v.age < v.decay)
    /\ UNCHANGED <<pattern, currentStep, isPlaying, tempo, intervalId,
                   mutedTracks, audioContext, soundConfig, timers, last,
                   resume, due, sinceTick, twin>>

\* cells passed to toggleStep where voices are followed
VoiceArgs == {<<"snare", 0>>, <<"hihat", 0>>}

\* the voices: every command and the ticks, with the audio clock running
NextVoice ==
    \/ /\ \/ \E a \in VoiceArgs : ToggleStep(a[1], a[2])
          \/ \E t \in MuteArgs : ToggleMute(t)
          \/ ChangeSound("snare", "snare2")
          \/ UpdateTempo(<<"2", "4", "0">>)
          \/ TogglePlay
          \/ Stop
          \/ ClearAll
          \/ \E id \in DOMAIN timers : Tick(id)
       /\ sounding' = KeepSounding
       /\ Len(sounding') <= MaxVoices
       /\ UNCHANGED <<resume, due, sinceTick, twin>>
    \/ Elapse

SpecVoice == Init /\ [][NextVoice]_vars

----------------------------------------------------------------------------
(* The same handlers as functions of a BeatMaker value, for running a     *)
(* second instance in step with the first                                 *)

TwPlaySound(tw, track) ==
    IF tw.audioContext = "null" THEN <<>>
    ELSE IF track \notin DOMAIN tw.soundConfig THEN <<>>
    ELSE <<[track     |-> track,
            frequency |-> tw.soundConfig[track].frequency,
            type      |-> tw.soundConfig[track].type,
            decay     |-> tw.soundConfig[track].decay,
            filter    |-> FilterOf(track)]>>

RECURSIVE TwPlaySounds(_, _)
TwPlaySounds(tw, ts) ==
    IF ts = <<>> THEN <<>>
    ELSE TwPlaySound(tw, Head(ts)) \o TwPlaySounds(tw, Tail(ts))

\* the handler ended with outcome after calling playSound for called
TwDone(tw, outcome, called) ==
    [tw EXCEPT !.outcome = outcome, !.called = called,
               !.voices = TwPlaySounds(tw, called)]

TwToggleStep(tw, track, step) ==
    IF track \notin DOMAIN tw.pattern THEN TwDone(tw, "TypeError", <<>>)
    ELSE LET row == Flip(tw.pattern[track], step)
             t2  == [tw EXCEPT !.pattern[track] = row]
         IN  IF ~HasStepBtn(track, step) THEN TwDone(t2, "TypeError", <<>>)
             ELSE TwDone(t2, "ok", IF RowGet(row, step) THEN <<track>>
                                   ELSE <<>>)

TwPlay(tw) ==
    [tw EXCEPT !.isPlaying = TRUE,
               !.intervalId = FreshId(tw.timers),
               !.timers = SetInterval(tw.timers, FreshId(tw.timers),
                                      Interval(tw.tempo))]

TwPause(tw) ==
    [tw EXCEPT !.isPlaying = FALSE,
               !.timers = IF tw.intervalId # null
                          THEN ClearInterval(tw.timers, tw.intervalId)
                          ELSE tw.timers,
               !.intervalId = null]

TwStop(tw) == [TwPause(tw) EXCEPT !.currentStep = 0]

\* playStep; a timer that is not live in this instance does not fire
TwTick(tw, id) ==
    IF id \notin DOMAIN tw.timers THEN tw
    ELSE [TwDone(tw, "ok",
                 SelectSeq(tracks,
                           LAMBDA t : RowGet(tw.pattern[t], tw.currentStep)
                                      /\ t \notin tw.mutedTracks))
             EXCEPT !.currentStep = (tw.currentStep + 1) % steps]

TwToggleMute(tw, track) ==
    [tw EXCEPT !.mutedTracks = IF track \in tw.mutedTracks
                               THEN tw.mutedTracks \ {track}
                               ELSE tw.mutedTracks \cup {track}]

TwChangeSound(tw, track, soundId) ==
    IF soundId \notin DOMAIN variations THEN tw
    ELSE [tw EXCEPT !.soundConfig =
            [t \in (DOMAIN tw.soundConfig) \cup {track} |->
                IF t = track
                THEN Merge(IF track \in DOMAIN tw.soundConfig
                           THEN tw.soundConfig[track] ELSE <<>>,
                           variations[soundId])
                ELSE tw.soundConfig[t]]]

TwUpdateTempo(tw, newTempo) ==
    IF tw.isPlaying
    THEN LET cleared == ClearInterval(tw.timers, tw.intervalId)
         IN  [tw EXCEPT !.tempo = ParseInt(newTempo),
                        !.intervalId = FreshId(cleared),
                        !.timers = SetInterval(cleared, FreshId(cleared),
                                               Interval(ParseInt(newTempo)))]
    ELSE [tw EXCEPT !.tempo = ParseInt(newTempo)]

TwClearAll(tw) ==
    TwStop([tw EXCEPT !.pattern = [t \in DOMAIN tw.pattern |->
                                     RowFill(tw.pattern[t])]])

\* the handler op(args) run on the instance tw
TwStep(tw, op, args) ==
    CASE op = "toggleStep"  -> TwToggleStep(tw, args[1], args[2])
      [] op = "play"        -> TwDone(TwPlay(tw), "ok", <<>>)
      [] op = "pause"       -> TwDone(TwPause(tw), "ok", <<>>)
      [] op = "togglePlay"  ->
            TwDone(IF tw.isPlaying THEN TwPause(tw) ELSE TwPlay(tw),
                   "ok", <<>>)
      [] op = "stop"        -> TwDone(TwStop(tw), "ok", <<>>)
      [] op = "tick"        -> TwTick(tw, args[1])
      [] op = "toggleMute"  ->
            TwDone(TwToggleMute(tw, args[1]),
                   IF HasMuteBtn(args[1]) THEN "ok" ELSE "TypeError", <<>>)
      [] op = "changeSound" ->
            TwDone(TwChangeSound(tw, args[1], args[2]), "ok", <<>>)
      [] op = "updateTempo" -> TwDone(TwUpdateTempo(tw, args[1]), "ok", <<>>)
      [] op = "clearAll"    -> TwDone(TwClearAll(tw), "ok", <<>>)

\* (track, step) pairs passed to toggleStep in the paired run: a valid
\* cell, a step past the row, an unknown track
PairToggleArgs == {<<"kick", 0>>, <<"snare", MaxStepArg>>, <<"tom", 0>>}

\* two instances, one with and one without an audio context, given the
\* same commands and the same timer firings
NextPair ==
    /\ \/ \E a \in PairToggleArgs : ToggleStep(a[1], a[2])
       \/ Play
       \/ Pause
       \/ TogglePlay
       \/ Stop
       \/ \E id \in DOMAIN timers : Tick(id)
       \/ \E v \in TimedTempoArgs : UpdateTempo(v)
       \/ ToggleMute("kick")
       \/ \E a \in SoundArgs : ChangeSound(a[1], a[2])
       \/ ClearAll
    /\ twin' = TwStep(twin, last'.op, last'.args)
    /\ UNCHANGED <<resume, due, sinceTick, sounding>>

SpecPair == Init /\ [][NextPair]_vars

----------------------------------------------------------------------------
(* Properties *)

Range(f) == {f[i] : i \in DOMAIN f}

StepRange == 0..(steps - 1)

\* C1: at most one repeating timer is live, and every live timer is the
\* one this.intervalId refers to (play() while a timer is live cancels it).
C1_SingleOwnedTimer ==
    /\ Cardinality(DOMAIN timers) <= 1
    /\ DOMAIN timers \subseteq {intervalId}

\* C2: currentStep is always a step index; every tick processes currentStep
\* and moves it from s to (s + 1) mod 16; and between two states that are
\* both Playing only a tick changes currentStep.
C2_StepSequence ==
    [][/\ currentStep' \in StepRange
       /\ last'.op = "tick" =>
             /\ last'.step = currentStep
             /\ currentStep' = (currentStep + 1) % steps
       /\ (isPlaying /\ isPlaying' /\ last'.op # "tick") =>
             currentStep' = currentStep]_vars

\* a tick while Playing wrapped from step 15 to step 0, with an active cell
\* and a muted track
C2_Witness ==
    /\ last.op = "tick" /\ last.step = steps - 1 /\ currentStep = 0
    /\ isPlaying
    /\ RowGet(pattern["kick"], 0)
    /\ "kick" \in mutedTracks

\* C3: the tick that follows pause() then play() processes the step the
\* transport was paused at; the tick that follows stop() then play()
\* processes step 0.
C3_ResumeStep ==
    /\ resume.kind = "pausedPlayedTicked" =>
          last.op = "tick" /\ last.step = resume.step
    /\ resume.kind = "stoppedPlayedTicked" =>
          last.op = "tick" /\ last.step = 0

\* paused at a step other than 0, resumed, and ticked
C3_Witness ==
    /\ resume.kind = "pausedPlayedTicked"
    /\ resume.step = 5
    /\ currentStep = 6

\* stopped at a step other than 0, restarted, and ticked
C3_WitnessStop ==
    /\ resume.kind = "stoppedPlayedTicked"
    /\ resume.step = 5
    /\ currentStep = 1

\* C4: clearAll() leaves every cell false, currentStep = 0, isPlaying false
\* and no live timer, and keeps tempo, the mute set and the sound parameters.
C4_ClearAll ==
    [][last'.op = "clearAll" =>
          /\ \A t \in TrackSet : \A k \in StepRange : ~RowGet(pattern'[t], k)
          /\ currentStep' = 0
          /\ ~isPlaying'
          /\ intervalId' = null
          /\ DOMAIN timers' = {}
          /\ UNCHANGED <<tempo, mutedTracks, soundConfig>>]_vars

ValidCell(track, step) == track \in TrackSet /\ step \in StepRange

\* C5: toggleStep(T, S) on a real track and a step in [0,16) flips the cell
\* (T, S) and nothing else: every other cell, the row lengths, currentStep,
\* isPlaying, tempo, the timers, the mute set and the sound parameters
\* stay; and toggling the same cell once more gives the pattern back.
C5_ToggleInvolution ==
    [][(last'.op = "toggleStep"
        /\ ValidCell(last'.args[1], last'.args[2])) =>
          /\ last'.outcome = "ok"
          /\ \A u \in TrackSet :
                /\ pattern'[u].length = pattern[u].length
                /\ DOMAIN pattern'[u].cells = DOMAIN pattern[u].cells
                /\ \A k \in DOMAIN pattern[u].cells :
                      pattern'[u].cells[k] =
                         IF u = last'.args[1] /\ k = last'.args[2]
                         THEN ~pattern[u].cells[k]
                         ELSE pattern[u].cells[k]
          /\ UNCHANGED <<currentStep, isPlaying, tempo, intervalId,
                         timers, mutedTracks, soundConfig>>
          /\ [pattern' EXCEPT ![last'.args[1]] = Flip(@, last'.args[2])]
                = pattern]_vars

\* (snare, 0) was toggled off again while (kick, 0) was active, the
\* transport Playing past step 0, and snare muted
C5_Witness ==
    /\ last.op = "toggleStep" /\ last.args = <<"snare", 0>>
    /\ last.outcome = "ok"
    /\ ~RowGet(pattern["snare"], 0)
    /\ RowGet(pattern["kick"], 0)
    /\ isPlaying /\ currentStep = 3
    /\ "snare" \in mutedTracks

\* C6: every track's row has exactly 16 entries, all boolean.
C6_RowLength ==
    \A t \in TrackSet :
        /\ pattern[t].length = steps
        /\ DOMAIN pattern[t].cells = StepRange
        /\ \A k \in StepRange : pattern[t].cells[k] \in BOOLEAN

\* C7: toggleStep with an unknown track or a step outside [0,16) ends in an
\* error, changes nothing, and calls playSound for no track.
C7_InvalidToggle ==
    [][(last'.op = "toggleStep"
        /\ ~ValidCell(last'.args[1], last'.args[2])) =>
          /\ last'.outcome # "ok"
          /\ last'.called = <<>>
          /\ UNCHANGED <<pattern, currentStep, isPlaying, tempo, intervalId,
                         timers, mutedTracks, soundConfig>>]_vars

\* C8: updateTempo with a value <= 0 ends in an error and leaves tempo, the
\* timers, intervalId, isPlaying and currentStep unchanged; tempo stays
\* positive.
C8_NonPositiveTempo ==
    [][/\ (last'.op = "updateTempo" /\ ParseInt(last'.args[1]) <= 0) =>
             /\ last'.outcome # "ok"
             /\ UNCHANGED <<tempo, timers, intervalId, isPlaying,
                            currentStep>>
       /\ tempo' > 0]_vars

\* C9: a tick passes a track to playSound exactly when the track's cell at
\* the step being processed is active and the track is not in the mute set
\* at that moment: a muted track is never fired, and a track un-muted (or
\* muted) since the last tick is fired (or not) by this one.
C9_MuteHonoured ==
    [][last'.op = "tick" =>
          \A t \in TrackSet :
             /\ t \in mutedTracks => t \notin Range(last'.called)
             /\ (t \notin mutedTracks /\ RowGet(pattern[t], currentStep)) =>
                   t \in Range(last'.called)]_vars

\* a tick at step 0 while Playing: snare is active there and muted, and is
\* not fired, while kick is active, un-muted and fired
C9_Witness ==
    /\ last.op = "tick" /\ last.step = 0
    /\ isPlaying
    /\ RowGet(pattern["snare"], 0) /\ "snare" \in mutedTracks
    /\ RowGet(pattern["kick"], 0)
    /\ last.called = <<"kick">>

\* a tick at step 0 fires snare, which is active and not muted
C9_WitnessUnmuted ==
    /\ last.op = "tick" /\ last.step = 0
    /\ isPlaying
    /\ "snare" \notin mutedTracks
    /\ last.called = <<"kick", "snare">>

\* C10: a toggleStep that completes calls playSound exactly once, for its
\* track, when the cell became active, muted or not, Playing or not, and
\* never when the cell became inactive; the call makes one voice of that
\* track when the audio context exists and none when it is null.
C10_Audition ==
    last.op = "toggleStep" /\ last.outcome = "ok" =>
        LET t == last.args[1]
            s == last.args[2]
        IN  IF RowGet(pattern[t], s)
            THEN /\ last.called = <<t>>
                 /\ IF audioContext = "null" THEN last.voices = <<>>
                    ELSE /\ Len(last.voices) = 1
                         /\ last.voices[1].track = t
            ELSE last.called = <<>> /\ last.voices = <<>>

\* (snare, 0) was toggled on while snare is muted and the transport is
\* Playing, and one snare voice was made
C10_Witness ==
    /\ last.op = "toggleStep" /\ last.args = <<"snare", 0>>
    /\ last.outcome = "ok"
    /\ RowGet(pattern["snare"], 0)
    /\ "snare" \in mutedTracks
    /\ isPlaying
    /\ Len(last.voices) = 1 /\ last.voices[1].track = "snare"

\* C11: changeSound(track, soundId) with a real track and a soundId of the
\* table sets that track's frequency and type to the variant's, keeps its
\* decay, and keeps every other track's parameters; every track's decay is
\* always its initial one.
C11_VariantApplied ==
    [][/\ (last'.op = "changeSound" /\ last'.args[1] \in TrackSet
           /\ last'.args[2] \in DOMAIN variations) =>
             LET t == last'.args[1]
                 v == variations[last'.args[2]]
             IN  /\ DOMAIN soundConfig' = DOMAIN soundConfig
                 /\ soundConfig'[t].frequency = v.frequency
                 /\ soundConfig'[t].type = v.type
                 /\ soundConfig'[t].decay = soundConfig[t].decay
                 /\ \A u \in (DOMAIN soundConfig) \ {t} :
                       soundConfig'[u] = soundConfig[u]
       /\ \A t \in TrackSet :
             /\ DOMAIN soundConfig'[t] = {"frequency", "type", "decay"}
             /\ soundConfig'[t].decay = DefaultSound[t].decay]_vars

\* kick2 was applied to kick (triangle, 40 Hz, decay still 0.5 s) after
\* snare had been given another variant
C11_Witness ==
    /\ last.op = "changeSound" /\ last.args = <<"kick", "kick2">>
    /\ soundConfig["kick"] =
          [frequency |-> 40, type |-> "triangle", decay |-> 50]
    /\ soundConfig["snare"] =
          [frequency |-> 300, type |-> "sawtooth", decay |-> 30]

\* the variant table of the specification: each soundId belongs to the
\* track it is named after
VariantTable ==
    [t \in TrackSet |->
        CASE t = "kick"  -> {"kick1", "kick2", "kick3"}
          [] t = "snare" -> {"snare1", "snare2", "snare3"}
          [] t = "hihat" -> {"hihat1", "hihat2", "hihat3"}
          [] t = "crash" -> {"crash1", "crash2"}]

InVariantTable(track, soundId) ==
    track \in TrackSet /\ soundId \in VariantTable[track]

\* C12: changeSound(track, soundId) with a pair that is not in the variant
\* table changes no track's parameters and adds no entry.
C12_AbsentVariantIgnored ==
    [][(last'.op = "changeSound"
        /\ ~InVariantTable(last'.args[1], last'.args[2])) =>
          soundConfig' = soundConfig]_vars

IndexOf(t) == CHOOSE i \in 1..Len(tracks) : tracks[i] = t

\* C14: a tick that processes step s calls playSound for exactly the tracks
\* whose cell s is active and that are not muted, in the order kick, snare,
\* hihat, crash, each voice carrying the track's current parameters, and
\* ends with currentStep = (s + 1) mod 16.
C14_TickFires ==
    [][last'.op = "tick" =>
          LET c == last'.called
          IN  /\ last'.step = currentStep
              /\ Range(c) = {t \in TrackSet : RowGet(pattern[t], currentStep)
                                              /\ t \notin mutedTracks}
              /\ \A i \in 1..Len(c) : \A j \in 1..Len(c) :
                    i < j => IndexOf(c[i]) < IndexOf(c[j])
              /\ IF audioContext = "null" THEN last'.voices = <<>>
                 ELSE /\ Len(last'.voices) = Len(c)
                      /\ \A i \in 1..Len(c) :
                            /\ last'.voices[i].track = c[i]
                            /\ last'.voices[i].frequency =
                                  soundConfig[c[i]].frequency
                            /\ last'.voices[i].type = soundConfig[c[i]].type
                            /\ last'.voices[i].decay = soundConfig[c[i]].decay
              /\ currentStep' = (currentStep + 1) % steps]_vars

\* the tick of step 0: kick, snare and crash are active, snare is muted;
\* kick then crash were fired, kick with its changed parameters, and
\* currentStep is 1
C14_Witness ==
    /\ last.op = "tick" /\ last.step = 0 /\ currentStep = 1
    /\ RowGet(pattern["snare"], 0) /\ "snare" \in mutedTracks
    /\ last.called = <<"kick", "crash">>
    /\ Len(last.voices) = 2
    /\ last.voices[1].frequency = 40 /\ last.voices[1].type = "triangle"
    /\ last.voices[2].track = "crash"

\* the first tick after start, from the initial state with only (kick, 0)
\* active: kick alone is fired and currentStep is 1
C14_WitnessFirstTick ==
    /\ last.op = "tick" /\ last.step = 0 /\ currentStep = 1
    /\ last.called = <<"kick">>
    /\ ~RowGet(pattern["snare"], 0) /\ ~RowGet(pattern["crash"], 0)

\* C16: every live timer's period is 60000 / tempo / 4 ms for the current
\* tempo; updateTempo while not Playing installs no timer and changes
\* neither isPlaying nor currentStep.
C16_PeriodMatchesTempo ==
    [][/\ \A id \in DOMAIN timers' :
             timers'[id].num * (tempo' * 4) = 60000 * timers'[id].den
       /\ (last'.op = "updateTempo" /\ ~isPlaying) =>
             UNCHANGED <<timers, intervalId, isPlaying, currentStep>>]_vars

\* C17: no tick is processed while the transport is not Playing, i.e.
\* between a pause(), stop() or clearAll() and the next play().
C17_NoTickWhenHalted ==
    [][last'.op = "tick" => isPlaying]_vars

\* C19: a timer is live exactly when isPlaying is true.
C19_TimerIffPlaying ==
    /\ isPlaying <=> (DOMAIN timers # {})
    /\ isPlaying <=> (intervalId # null)
    /\ DOMAIN timers \subseteq {intervalId}

\* Playing again after a stop and a tempo change, with the one timer live
C19_Witness ==
    /\ isPlaying /\ DOMAIN timers = {intervalId}
    /\ last.op = "updateTempo" /\ tempo = 240
    /\ currentStep = 2

\* halted by togglePlay at step 2: no timer is live
C19_WitnessHalted ==
    /\ ~isPlaying /\ DOMAIN timers = {}
    /\ last.op = "togglePlay" /\ currentStep = 2

\* the time since the last tick, since, is at least 60000 / t / 4 ms (an
\* Infinity interval is only met by "no tick yet")
Separated(since, t) ==
    IF t = 0 THEN since = MaxSince
    ELSE IF t < 0 THEN TRUE
    ELSE since = MaxSince \/ since * 125 * (t * 4) >= 60000 * 2

\* C13: updateTempo while Playing cancels the timer intervalId names and
\* installs one new timer with the new interval, starting now; every tick
\* comes at least the current interval after the tick before it (a step in
\* which time passes keeps sinceTick above 0, a tick resets it); and every
\* tick processes currentStep and advances it by one, and only a tick or
\* stop() changes currentStep, so no step is processed twice or skipped.
C13_TempoChange ==
    [][/\ (last'.op = "updateTempo" /\ isPlaying) =>
             /\ DOMAIN timers' =
                   ((DOMAIN timers) \ {intervalId}) \cup {intervalId'}
             /\ Cardinality(DOMAIN timers') = Cardinality(DOMAIN timers)
             /\ timers'[intervalId'].num * (tempo' * 4)
                   = 60000 * timers'[intervalId'].den
             /\ UNCHANGED <<currentStep, isPlaying>>
       /\ (last'.op = "tick" /\ sinceTick' = 0) =>
             /\ Separated(sinceTick, tempo)
             /\ last'.step = currentStep
             /\ currentStep' = (currentStep + 1) % steps
       /\ currentStep' # currentStep =>
             last'.op \in {"tick", "stop"}]_vars

\* C18: a voice leaves the sounding voices only when the audio clock
\* reaches its end, that is its start plus the decay its track had at the
\* start; a step in which a handler runs keeps every sounding voice as it
\* is (same track, same end, same age) and only adds the voices it made.
C18_VoicesPlayOut ==
    [][LET n == Len(sounding)
           m == Len(sounding')
       IN  \/ /\ m >= n
              /\ SubSeq(sounding', 1, n) = sounding
              /\ m - n = Len(last'.voices)
              /\ \A i \in (n + 1)..m :
                    /\ sounding'[i].age = 0
                    /\ sounding'[i].track \in TrackSet
                    /\ sounding'[i].decay =
                          soundConfig[sounding'[i].track].decay
           \/ /\ UNCHANGED <<pattern, currentStep, isPlaying, tempo,
                             intervalId, mutedTracks, soundConfig, timers,
                             last>>
              /\ m <= n
              /\ \A i \in 1..n :
                    \/ sounding[i].age + 10 >= sounding[i].decay
                    \/ \E j \in 1..m :
                          sounding'[j] =
                             [sounding[i] EXCEPT !.age = @ + 10]
              /\ \A j \in 1..m :
                    \E i \in 1..n :
                       /\ sounding'[j] = [sounding[i] EXCEPT !.age = @ + 10]
                       /\ sounding'[j].age < sounding'[j].decay]_vars

\* a snare voice started while Playing is still sounding 0.2 s later,
\* after clearAll() halted the transport
C18_Witness ==
    /\ last.op = "clearAll" /\ ~isPlaying
    /\ Len(sounding) = 1
    /\ sounding[1] = [track |-> "snare", decay |-> 30, age |-> 20]

\* C15: two instances that differ only in the audio context (one null, one
\* available) and get the same commands and ticks agree, after every step,
\* on pattern, mute set, sound parameters, isPlaying, currentStep, tempo,
\* intervalId and timers, on the outcome of the handler and on the tracks
\* passed to playSound; the instance without a context has made no voice,
\* the other one voice per playSound call.
C15_AudioIndependent ==
    /\ twin.audioContext # audioContext
    /\ twin.pattern = pattern
    /\ twin.mutedTracks = mutedTracks
    /\ twin.soundConfig = soundConfig
    /\ twin.isPlaying = isPlaying
    /\ twin.currentStep = currentStep
    /\ twin.tempo = tempo
    /\ twin.intervalId = intervalId
    /\ twin.timers = timers
    /\ twin.outcome = last.outcome
    /\ twin.called = last.called
    /\ IF audioContext = "null"
       THEN last.voices = <<>> /\ Len(twin.voices) = Len(last.called)
       ELSE twin.voices = <<>> /\ Len(last.voices) = Len(last.called)

\* a tick at step 0 fired kick in both instances; the one without an audio
\* context made no voice, its twin made one, and both are at step 1
C15_Witness ==
    /\ audioContext = "null"
    /\ last.op = "tick" /\ last.called = <<"kick">>
    /\ last.voices = <<>> /\ Len(twin.voices) = 1
    /\ currentStep = 1 /\ twin.currentStep = 1

====
